---- MODULE Spec2Model ----
(***************************************************************************)
(* Model of src/main.py: a FastAPI service over one SQLite table           *)
(* "studentai", accessed through SQLAlchemy sessions that the dependency   *)
(* gauti_sesija opens and closes around every request.                     *)
(*                                                                         *)
(* Strings are tuples of one-character strings, so that length, substring  *)
(* and LIKE matching are computed.  Every JSON / column value is a record  *)
(* [tipas, s, n]: tipas is "null", "str", "int" or "date".                 *)
(***************************************************************************)
EXTENDS Integers, Sequences, FiniteSets, TLC

-----------------------------------------------------------------------------
(* Bounds of the exploration *)

\* largest id the table may hand out (sukurti_studenta is disabled beyond it)
MaxId == 2
\* number of requests that may be in flight at the same time
MaxUzklausos == 2

-----------------------------------------------------------------------------
(* Values *)

JNull == [tipas |-> "null", s |-> <<>>, n |-> 0]
JStr(t) == [tipas |-> "str", s |-> t, n |-> 0]
JInt(k) == [tipas |-> "int", s |-> <<>>, n |-> k]
\* a datetime.date object (what pydantic parses an ISO date into)
JDate(t) == [tipas |-> "date", s |-> t, n |-> 0]

\* Field(..., min_length=3, max_length=50)
MinVardoIlgis == 3
MaxVardoIlgis == 50

\* pattern="^(A|B|C|D|F)$"
LeistiniPazymiai == {<<"A">>, <<"B">>, <<"C">>, <<"D">>, <<"F">>}

\* the columns of the table other than the primary key
Stulpeliai == {"vardas", "amzius", "pazymys", "registracijos_data"}

Ali == <<"A", "l", "i">>
APabrB == <<"a", "_", "b">>
Trumpas == <<"a", "b">>
Ilgas == [i \in 1..(MaxVardoIlgis + 1) |-> "a"]
Data1 == <<"2024-01-01">>

\* request bodies of POST and PUT: JSON objects, some of them invalid
Kroviniai ==
  { [vardas |-> JStr(Ali), amzius |-> JInt(20), pazymys |-> JStr(<<"A">>)],
    [id |-> JInt(7), vardas |-> JStr(APabrB), amzius |-> JInt(21),
     pazymys |-> JStr(<<"B">>), registracijos_data |-> JStr(Data1)],
    [vardas |-> JStr(Trumpas), amzius |-> JInt(20), pazymys |-> JStr(<<"A">>)],
    [vardas |-> JStr(Ilgas), amzius |-> JInt(20), pazymys |-> JStr(<<"A">>)],
    [vardas |-> JStr(Ali), amzius |-> JInt(20), pazymys |-> JStr(<<"E">>)],
    [vardas |-> JStr(Ali), pazymys |-> JStr(<<"A">>)] }

\* request bodies of PATCH: arbitrary JSON objects
Atnaujinimai ==
  { [pazymys |-> JStr(<<"B">>), foo |-> JStr(<<"b", "a", "r">>), id |-> JInt(7)],
    [vardas |-> JStr(Trumpas), pazymys |-> JStr(<<"E">>)],
    [vardas |-> JNull],
    [registracijos_data |-> JStr(Data1)],
    [foo |-> JStr(<<"b", "a", "r">>)] }

\* query strings of the search
Paieskos == { << >>, <<"L", "I">>, <<"_">>, <<"%">> }

\* the inputs of the concurrent exploration: one for each way a request ends
LygKroviniai == {k \in Kroviniai : k.vardas.s = Ali /\ "amzius" \in DOMAIN k}
LygAtnaujinimai == { [pazymys |-> JStr(<<"E">>)], [vardas |-> JNull] }
LygPaieskos == { <<"L", "I">> }
LygIdai == {1, MaxId + 1}

\* ids a request may name: every id the table can hold and one it cannot
Idai == 1..(MaxId + 1)
Uzklausos == 1..MaxUzklausos

Max(S) == CHOOSE x \in S : \A y \in S : y <= x

-----------------------------------------------------------------------------
(* State *)

VARIABLES
  studentai,   \* the rows of table "studentai"
  isduoti,     \* history: the ids the table has assigned so far
  atsakymas,   \* the request handled last and its response
  pc,          \* per request slot: position inside gauti_sesija
  atviros      \* the request slots whose session is open

vars == <<studentai, isduoti, atsakymas, pc, atviros>>

-----------------------------------------------------------------------------
(* Validation and storage rules *)

\* StudentoModelis had its Field constraints been left out
StudentoModelis_be_ribu(o) ==
  /\ "vardas" \in DOMAIN o
  /\ o.vardas.tipas = "str"
  /\ "amzius" \in DOMAIN o
  /\ o.amzius.tipas = "int"
  /\ "pazymys" \in DOMAIN o
  /\ o.pazymys.tipas = "str"

\* class StudentoModelis: what pydantic accepts, for a request body (a JSON
\* object) and for a row returned through response_model (from_attributes)
StudentoModelis(o) ==
  /\ "vardas" \in DOMAIN o
  /\ o.vardas.tipas = "str"
  /\ Len(o.vardas.s) >= MinVardoIlgis
  /\ Len(o.vardas.s) <= MaxVardoIlgis
  /\ "amzius" \in DOMAIN o
  /\ o.amzius.tipas = "int"
  /\ "pazymys" \in DOMAIN o
  /\ o.pazymys.tipas = "str"
  /\ o.pazymys.s \in LeistiniPazymiai
  /\ "registracijos_data" \in DOMAIN o
       => o.registracijos_data.tipas \in {"null", "date", "str"}

\* the value a validated body has for registracijos_data: an ISO string is
\* parsed into a date, an omitted field takes the default None
KrovinioData(k) ==
  IF "registracijos_data" \in DOMAIN k /\ k.registracijos_data.tipas # "null"
  THEN JDate(k.registracijos_data.s)
  ELSE JNull

\* class Studentas: what a flush accepts for a row.  The three nullable=False
\* columns reject None, and the Date column binds only date objects.
Studentas(e) ==
  /\ e.vardas.tipas # "null"
  /\ e.amzius.tipas # "null"
  /\ e.pazymys.tipas # "null"
  /\ e.registracijos_data.tipas \in {"null", "date"}

\* an id taken from the number of rows instead
NaujasId_pagal_kieki == Cardinality(studentai) + 1

\* the rowid SQLite gives to an INSERT into an INTEGER PRIMARY KEY table
\* declared without AUTOINCREMENT: one more than the largest one stored
NaujasId ==
  IF studentai = {} THEN 1 ELSE Max({e.id : e \in studentai}) + 1

\* sesija.query(Studentas).filter(Studentas.id == studento_id)
PagalId(id) == {e \in studentai : e.id = id}

\* rows in the order a table scan yields them (ascending rowid)
RECURSIVE Eile(_)
Eile(S) ==
  IF S = {} THEN << >>
  ELSE LET m == CHOOSE e \in S : \A f \in S : e.id <= f.id
       IN <<m>> \o Eile(S \ {m})

-----------------------------------------------------------------------------
(* ILIKE *)

Mazosios ==
  [A |-> "a", B |-> "b", C |-> "c", D |-> "d", E |-> "e", F |-> "f",
   G |-> "g", H |-> "h", I |-> "i", J |-> "j", K |-> "k", L |-> "l",
   M |-> "m", N |-> "n", O |-> "o", P |-> "p", Q |-> "q", R |-> "r",
   S |-> "s", T |-> "t", U |-> "u", V |-> "v", W |-> "w", X |-> "x",
   Y |-> "y", Z |-> "z"]

\* SQL lower()
Lower(t) == [i \in 1..Len(t) |-> IF t[i] \in DOMAIN Mazosios THEN Mazosios[t[i]] ELSE t[i]]

\* SQL LIKE: % matches any run of characters, _ any one character
RECURSIVE Like(_, _)
Like(t, p) ==
  IF p = << >> THEN t = << >>
  ELSE IF Head(p) = "%"
       THEN Like(t, Tail(p)) \/ (t # << >> /\ Like(Tail(t), p))
       ELSE /\ t # << >>
            /\ Head(p) = "_" \/ Head(p) = Head(t)
            /\ Like(Tail(t), Tail(p))

\* Studentas.vardas.ilike(f"%{vardas}%"), rendered as lower(x) LIKE lower(y)
ILike(t, vardas) == Like(Lower(t), Lower(<<"%">> \o vardas \o <<"%">>))

-----------------------------------------------------------------------------
(* Requests and responses *)

Ats(op, id, kunas, vardas, kodas, klaida, irasai) ==
  [op |-> op, id |-> id, kunas |-> kunas, vardas |-> vardas,
   kodas |-> kodas, klaida |-> klaida, irasai |-> irasai]

\* a handler returned rows; response_model validates them before the reply
Grazinti(op, id, kunas, vardas, irasai) ==
  IF \A i \in 1..Len(irasai) : StudentoModelis(irasai[i])
  THEN Ats(op, id, kunas, vardas, 200, "", irasai)
  ELSE Ats(op, id, kunas, vardas, 500, "ResponseValidationError", << >>)

\* the slot's request ended with these rows and this response
Baigti(r, rows, ats) ==
  /\ studentai' = rows
  /\ atsakymas' = ats
  /\ pc' = [pc EXCEPT ![r] = IF ats.kodas = 200 THEN "returned" ELSE "raised"]
  /\ UNCHANGED atviros

Init ==
  /\ studentai = {}
  /\ isduoti = {}
  /\ atsakymas = Ats("", 0, << >>, << >>, 0, "", << >>)
  /\ pc = [r \in Uzklausos |-> "idle"]
  /\ atviros = {}

\* gauti_sesija up to its yield
gauti_sesija(r) ==
  /\ pc[r] = "idle"
  /\ pc' = [pc EXCEPT ![r] = "yielded"]
  /\ atviros' = atviros \cup {r}
  /\ UNCHANGED <<studentai, isduoti, atsakymas>>

\* gauti_sesija had close() followed the yield without try/finally
sesija_close_be_finally(r) ==
  /\ pc[r] \in {"returned", "raised"}
  /\ pc' = [pc EXCEPT ![r] = "idle"]
  /\ atviros' = IF pc[r] = "returned" THEN atviros \ {r} ELSE atviros
  /\ UNCHANGED <<studentai, isduoti, atsakymas>>

\* gauti_sesija after its yield: finally: sesija.close()
sesija_close(r) ==
  /\ pc[r] \in {"returned", "raised"}
  /\ pc' = [pc EXCEPT ![r] = "idle"]
  /\ atviros' = atviros \ {r}
  /\ UNCHANGED <<studentai, isduoti, atsakymas>>

\* POST /studentai/
sukurti_studenta(r, k) ==
  /\ pc[r] = "yielded"
  /\ IF ~StudentoModelis(k)
     THEN /\ Baigti(r, studentai,
                    Ats("POST", 0, k, << >>, 422, "RequestValidationError", << >>))
          /\ UNCHANGED isduoti
     ELSE LET naujas_studentas ==
                [id |-> NaujasId, vardas |-> k.vardas, amzius |-> k.amzius,
                 pazymys |-> k.pazymys, registracijos_data |-> KrovinioData(k)]
          IN /\ NaujasId <= MaxId
             /\ isduoti' = isduoti \cup {NaujasId}
             /\ Baigti(r, studentai \cup {naujas_studentas},
                       Grazinti("POST", 0, k, << >>, <<naujas_studentas>>))

\* GET /studentai/{studento_id}
gauti_studenta(r, id) ==
  /\ pc[r] = "yielded"
  /\ UNCHANGED isduoti
  /\ IF PagalId(id) = {}
     THEN Baigti(r, studentai, Ats("GET", id, << >>, << >>, 404, "HTTPException", << >>))
     ELSE LET studentas == CHOOSE e \in PagalId(id) : TRUE
          IN Baigti(r, studentai, Grazinti("GET", id, << >>, << >>, <<studentas>>))

\* atnaujinti_studenta had it skipped a date that the body does not carry
atnaujinti_studenta_be_datos(r, id, k) ==
  /\ pc[r] = "yielded"
  /\ UNCHANGED isduoti
  /\ IF ~StudentoModelis(k)
     THEN Baigti(r, studentai,
                 Ats("PUT", id, k, << >>, 422, "RequestValidationError", << >>))
     ELSE IF PagalId(id) = {}
     THEN Baigti(r, studentai, Ats("PUT", id, k, << >>, 404, "HTTPException", << >>))
     ELSE LET studentas == CHOOSE e \in PagalId(id) : TRUE
              atnaujintas ==
                [studentas EXCEPT !.vardas = k.vardas,
                                  !.amzius = k.amzius,
                                  !.pazymys = k.pazymys,
                                  !.registracijos_data =
                                     IF KrovinioData(k) = JNull
                                     THEN studentas.registracijos_data
                                     ELSE KrovinioData(k)]
          IN Baigti(r, (studentai \ {studentas}) \cup {atnaujintas},
                    Grazinti("PUT", id, k, << >>, <<atnaujintas>>))

\* PUT /studentai/{studento_id}
atnaujinti_studenta(r, id, k) ==
  /\ pc[r] = "yielded"
  /\ UNCHANGED isduoti
  /\ IF ~StudentoModelis(k)
     THEN Baigti(r, studentai,
                 Ats("PUT", id, k, << >>, 422, "RequestValidationError", << >>))
     ELSE IF PagalId(id) = {}
     THEN Baigti(r, studentai, Ats("PUT", id, k, << >>, 404, "HTTPException", << >>))
     ELSE LET studentas == CHOOSE e \in PagalId(id) : TRUE
              atnaujintas ==
                [studentas EXCEPT !.vardas = k.vardas,
                                  !.amzius = k.amzius,
                                  !.pazymys = k.pazymys,
                                  !.registracijos_data = KrovinioData(k)]
          IN Baigti(r, (studentai \ {studentas}) \cup {atnaujintas},
                    Grazinti("PUT", id, k, << >>, <<atnaujintas>>))

\* the allowed keys had the grade been forgotten
leistini_poliai_be_pazymio == {"vardas", "amzius", "registracijos_data"}

leistini_poliai == {"vardas", "amzius", "pazymys", "registracijos_data"}

\* the loop of dalinai_atnaujinti_studenta: setattr for every allowed key
Pritaikyti(studentas, atnaujinimai) ==
  [laukas \in DOMAIN studentas |->
     IF laukas \in leistini_poliai /\ laukas \in DOMAIN atnaujinimai
     THEN atnaujinimai[laukas]
     ELSE studentas[laukas]]

\* PATCH /studentai/{studento_id}
dalinai_atnaujinti_studenta(r, id, atnaujinimai) ==
  /\ pc[r] = "yielded"
  /\ UNCHANGED isduoti
  /\ IF PagalId(id) = {}
     THEN Baigti(r, studentai,
                 Ats("PATCH", id, atnaujinimai, << >>, 404, "HTTPException", << >>))
     ELSE LET studentas == CHOOSE e \in PagalId(id) : TRUE
              atnaujintas == Pritaikyti(studentas, atnaujinimai)
          IN IF ~Studentas(atnaujintas)
             THEN \* sesija.commit() raises; close() rolls the change back
                  Baigti(r, studentai,
                         Ats("PATCH", id, atnaujinimai, << >>, 500, "commit", << >>))
             ELSE Baigti(r, (studentai \ {studentas}) \cup {atnaujintas},
                         Grazinti("PATCH", id, atnaujinimai, << >>, <<atnaujintas>>))

\* GET /studentai/
gauti_visus_studentus(r) ==
  /\ pc[r] = "yielded"
  /\ UNCHANGED isduoti
  /\ Baigti(r, studentai, Grazinti("LIST", 0, << >>, << >>, Eile(studentai)))

\* DELETE /studentai/{studento_id}
istrinti_studenta(r, id) ==
  /\ pc[r] = "yielded"
  /\ UNCHANGED isduoti
  /\ IF PagalId(id) = {}
     THEN Baigti(r, studentai,
                 Ats("DELETE", id, << >>, << >>, 404, "HTTPException", << >>))
     ELSE Baigti(r, studentai \ PagalId(id),
                 Ats("DELETE", id, << >>, << >>, 200, "", << >>))

\* GET /studentai/ieskoti/?vardas=...
ieskoti_studentu(r, vardas) ==
  /\ pc[r] = "yielded"
  /\ UNCHANGED isduoti
  /\ Baigti(r, studentai,
            Grazinti("SEARCH", 0, << >>, vardas,
                     Eile({e \in studentai : ILike(e.vardas.s, vardas)})))

\* the handler of slot r runs, on inputs of the given sets
Apdoroti(r, K, I, M, Q) ==
  \/ \E k \in K : sukurti_studenta(r, k)
  \/ \E id \in I : gauti_studenta(r, id)
  \/ \E id \in I, k \in K : atnaujinti_studenta(r, id, k)
  \/ \E id \in I, m \in M : dalinai_atnaujinti_studenta(r, id, m)
  \/ gauti_visus_studentus(r)
  \/ \E id \in I : istrinti_studenta(r, id)
  \/ \E q \in Q : ieskoti_studentu(r, q)

\* one client that sends its requests one after the other
Next ==
  \/ gauti_sesija(1)
  \/ Apdoroti(1, Kroviniai, Idai, Atnaujinimai, Paieskos)
  \/ sesija_close(1)

Spec == Init /\ [][Next]_vars

\* requests in flight side by side, each in a slot of its own
LygNext ==
  \/ \E r \in Uzklausos : gauti_sesija(r)
  \/ \E r \in Uzklausos : Apdoroti(r, LygKroviniai, LygIdai, LygAtnaujinimai, LygPaieskos)
  \/ \E r \in Uzklausos : sesija_close(r)

LygSpec == Init /\ [][LygNext]_vars

\* the framework calls the handler of every request whose dependencies it
\* has resolved and then runs the exit code of those dependencies
FairSpec ==
  /\ LygSpec
  /\ \A r \in Uzklausos :
       /\ WF_vars(Apdoroti(r, LygKroviniai, LygIdai, LygAtnaujinimai, LygPaieskos))
       /\ WF_vars(sesija_close(r))

-----------------------------------------------------------------------------
(* Properties *)

\* this step is the handling of a request of the given kind
Ivyko(op) ==
  /\ \E r \in Uzklausos : pc[r] = "yielded" /\ pc'[r] # "yielded"
  /\ atsakymas'.op = op

\* C1: a create whose body passes validation answers with one record whose
\* id no stored record has, carrying the body's values, and the get-by-id
\* handled next on that id answers with the same record.
C1_SukurtasRandamas ==
  [][ /\ (Ivyko("POST") /\ StudentoModelis(atsakymas'.kunas)) =>
           /\ atsakymas'.kodas = 200
           /\ Len(atsakymas'.irasai) = 1
           /\ LET g == atsakymas'.irasai[1]
                  k == atsakymas'.kunas
              IN /\ g.id \notin {e.id : e \in studentai}
                 /\ g.vardas = k.vardas
                 /\ g.amzius = k.amzius
                 /\ g.pazymys = k.pazymys
                 /\ g.registracijos_data =
                      IF "registracijos_data" \in DOMAIN k
                      THEN JDate(k.registracijos_data.s) ELSE JNull
                 /\ g \in studentai'
      /\ ( /\ atsakymas.op = "POST"
           /\ atsakymas.kodas = 200
           /\ Ivyko("GET")
           /\ atsakymas'.id = atsakymas.irasai[1].id ) =>
           /\ atsakymas'.kodas = 200
           /\ atsakymas'.irasai = atsakymas.irasai
    ]_vars

\* a create has answered with its record while another record is stored
C1_Liudija ==
  /\ atsakymas.op = "POST"
  /\ atsakymas.kodas = 200
  /\ Cardinality(studentai) = 2
  /\ atsakymas.irasai[1].registracijos_data = JDate(Data1)

\* C2: a create never hands out an id that was handed out before, and no
\* full or partial update changes the id of a stored record.
C2_IdNekartojamas ==
  [][ /\ (Ivyko("POST") /\ atsakymas'.kodas = 200) =>
           atsakymas'.irasai[1].id \notin isduoti
      /\ (Ivyko("PUT") \/ Ivyko("PATCH")) =>
           {e.id : e \in studentai'} = {e.id : e \in studentai}
    ]_vars

\* C3: the grade of every stored record is one of A, B, C, D, F.
C3_PazymysLeistinas ==
  \A e \in studentai : e.pazymys.s \in {<<"A">>, <<"B">>, <<"C">>, <<"D">>, <<"F">>}

\* C4: a create whose name is shorter than 3 or longer than 50 characters,
\* or whose grade is not one of A, B, C, D, F, is answered with a
\* validation error and leaves the table as it was.
C4_BlogasAtmestas ==
  [][ ( /\ Ivyko("POST")
        /\ \/ Len(atsakymas'.kunas.vardas.s) < 3
           \/ Len(atsakymas'.kunas.vardas.s) > 50
           \/ atsakymas'.kunas.pazymys.s
                \notin {<<"A">>, <<"B">>, <<"C">>, <<"D">>, <<"F">>} ) =>
        /\ atsakymas'.kodas = 422
        /\ atsakymas'.klaida = "RequestValidationError"
        /\ studentai' = studentai
    ]_vars

\* a create with a name of two characters was rejected while a record is stored
C4_Liudija ==
  /\ atsakymas.op = "POST"
  /\ atsakymas.kodas = 422
  /\ atsakymas.kunas.vardas.s = Trumpas
  /\ studentai # {}

\* C5: a partial update on an existing id always succeeds and answers with
\* the updated record, whatever the values of its mapping.
C5_DalinisVisadaPavyksta ==
  (atsakymas.op = "PATCH" /\ atsakymas.kodas # 404) =>
    /\ atsakymas.kodas = 200
    /\ Len(atsakymas.irasai) = 1

C7_PilnasKeiciaViska ==
  [][ ( /\ Ivyko("PUT")
        /\ StudentoModelis(atsakymas'.kunas)
        /\ PagalId(atsakymas'.id) # {} ) =>
        LET id == atsakymas'.id
            k == atsakymas'.kunas
            nauji == {e \in studentai' : e.id = id}
        IN /\ {e \in studentai' : e.id # id} = {e \in studentai : e.id # id}
           /\ Cardinality(nauji) = 1
           /\ \A naujas \in nauji :
                /\ naujas.vardas = k.vardas
                /\ naujas.amzius = k.amzius
                /\ naujas.pazymys = k.pazymys
                /\ naujas.registracijos_data =
                     IF "registracijos_data" \in DOMAIN k
                     THEN JDate(k.registracijos_data.s) ELSE JNull
                /\ atsakymas'.kodas = 200
                /\ atsakymas'.irasai = <<naujas>>
    ]_vars

\* a full update without a date has answered while another record is stored
C7_Liudija ==
  /\ atsakymas.op = "PUT"
  /\ atsakymas.kodas = 200
  /\ "registracijos_data" \notin DOMAIN atsakymas.kunas
  /\ atsakymas.irasai[1].registracijos_data = JNull
  /\ Cardinality(studentai) = 2

\* t contains q as a substring, letter case ignored
Turi(t, q) ==
  \E i \in 0..(Len(t) - Len(q)) :
    \A j \in 1..Len(q) : Lower(t)[i + j] = Lower(q)[j]

\* C8: a search answers with exactly the stored records whose name contains
\* the query as a case-insensitive substring, in storage order.
C8_PaieskaPagalPoeili ==
  (atsakymas.op = "SEARCH" /\ atsakymas.kodas = 200) =>
    atsakymas.irasai = Eile({e \in studentai : Turi(e.vardas.s, atsakymas.vardas)})

\* C9: a delete on a stored id removes it and a delete on any other id
\* answers not-found and removes nothing; an id that was deleted is never
\* stored again, so a get-by-id on it answers not-found from then on.
C9_IstrintasNebegrizta ==
  [][ /\ Ivyko("DELETE") =>
           IF PagalId(atsakymas'.id) = {}
           THEN atsakymas'.kodas = 404 /\ studentai' = studentai
           ELSE atsakymas'.kodas = 200 /\ studentai' = studentai \ PagalId(atsakymas'.id)
      /\ \A id \in Idai :
           (id \in isduoti /\ PagalId(id) = {}) => {e \in studentai' : e.id = id} = {}
      /\ Ivyko("GET") =>
           (atsakymas'.kodas = 404 <=> PagalId(atsakymas'.id) = {})
    ]_vars

\* C10: a request opens a session of its own, no request that has ended
\* has its session open, and every open session is closed eventually,
\* whether the handler returned or failed.
C10_SesijaUzdaroma ==
  /\ [][\A r \in Uzklausos :
          (pc[r] = "idle" /\ pc'[r] = "yielded") =>
            (r \notin atviros /\ atviros' = atviros \cup {r})]_vars
  /\ [](\A r \in Uzklausos : pc[r] = "idle" => r \notin atviros)
  /\ \A r \in Uzklausos : (r \in atviros) ~> (r \notin atviros)

\* the commit of one request has failed while another request holds its
\* session open
C10_Liudija ==
  /\ atsakymas.klaida = "commit"
  /\ \E r, t \in Uzklausos :
       /\ r # t
       /\ pc[r] = "raised"
       /\ pc[t] = "yielded"
       /\ {r, t} \subseteq atviros

====
